---- MODULE Spec2Model ----
(***************************************************************************)
(* A model of fernet_fields/fields.py: EncryptedField (Fernet-encrypted    *)
(* column), DualField (SHA-256 digest column plus a hidden EncryptedField) *)
(* and DualFieldDescriptor (redirection of the public attribute to the     *)
(* hidden field).                                                          *)
(*                                                                         *)
(* The cryptographic primitives are modelled symbolically: a Fernet token  *)
(* records the key that produced it, its nonce and its payload, and        *)
(* decrypts exactly under that key; a SHA-256 digest records the bytes it  *)
(* was computed from.  Byte strings are sequences of byte values, texts    *)
(* are sequences of code points, so that force_bytes / force_text /        *)
(* to_python are real conversions.                                         *)
(***************************************************************************)
EXTENDS Integers, Sequences, FiniteSets, TLC

VARIABLES
  settings,   \* django.conf.settings: FERNET_KEYS, SECRET_KEY, FERNET_USE_HKDF
  cache,      \* per EncryptedField instance: the cached_property slots of __dict__
  cell,       \* (encrypted field) the stored database cell
  origin,     \* (encrypted field) history: how the stored cell came to be
  loaded,     \* (encrypted field) outcome of the last from_db_value
  etype,      \* (encrypted field) logical type of the attribute
  crypted,    \* (encrypted field) history: a non-NULL value or cell was processed
  meta,       \* (dual record) the model class's fields, in _meta order
  obj,        \* (dual record) the instance __dict__: hidden attname -> value
  row,        \* (dual record) the database row: column -> cell
  ctor,       \* (dual record) progress of a running Model.__init__
  last,       \* (dual record) history: the last completed operation
  lastWrite,  \* (dual record) history: last non-sentinel value written per hidden field
  decl,       \* (declaration) the last field declaration and its outcome
  lookup,     \* (declaration) the last lookup on the declared field and its outcome
  th,         \* (threads) per thread: position, operations started, locals
  stores,     \* (threads) history: number of stores into each cached_property slot
  observed,   \* (threads) history: the first cipher any thread used
  lastUsed,   \* (threads) history: the cipher of the latest encrypt / decrypt
  changes     \* (threads) number of configuration changes so far

cryptoVars == <<etype, cell, origin, loaded, crypted>>
dualVars == <<meta, obj, row, ctor, last, lastWrite>>
declVars == <<decl, lookup>>
threadVars == <<th, stores, observed, lastUsed, changes>>
vars == <<settings, cache, cryptoVars, dualVars, declVars, threadVars>>

(***************************************************************************)
(* Bounds of the model.                                                    *)
(***************************************************************************)
MaxLen == 1      \* longest text value, in code points
MaxInt == 12     \* largest magnitude of an integer value
MaxKeys == 2     \* longest FERNET_KEYS list
MaxNonce == 2    \* number of distinct nonces Fernet may draw

(***************************************************************************)
(* Values.  Every Python value is a record tagged by t, so that values of  *)
(* different kinds can be compared.                                        *)
(***************************************************************************)
NULL == [t |-> "null"]
IntV(i) == [t |-> "int", i |-> i]
TextV(s) == [t |-> "text", s |-> s]

Opt(v) == [set |-> TRUE, val |-> v]
Absent == [set |-> FALSE]

(***************************************************************************)
(* Each specification below exercises one part of the module; the          *)
(* variables of the other parts rest at these values.                      *)
(***************************************************************************)
NotLoaded == [exc |-> "pending"]
CtorIdle == [via |-> "idle"]
NoDecl == [kind |-> "none"]
NoLookup == [lookup_type |-> "none"]

CryptoIdle ==
  /\ etype = "text"
  /\ cell = NULL
  /\ origin = [kind |-> "none"]
  /\ loaded = NotLoaded
  /\ crypted = FALSE

DualIdle ==
  /\ meta = <<>>
  /\ obj = <<>>
  /\ row = Absent
  /\ ctor = CtorIdle
  /\ last = [op |-> "none"]
  /\ lastWrite = <<>>

DeclIdle == decl = NoDecl /\ lookup = NoLookup

ThreadIdle ==
  /\ th = <<>>
  /\ stores = <<>>
  /\ observed = Absent
  /\ lastUsed = Absent
  /\ changes = 0

\* Code points used in text values: "7", "a" and a non-ASCII letter.
Chars == {55, 97, 233}

RECURSIVE SeqsUpTo(_, _)
SeqsUpTo(S, n) ==
  IF n = 0 THEN {<<>>}
  ELSE LET shorter == SeqsUpTo(S, n - 1)
       IN shorter \cup {Append(s, c) : s \in {x \in shorter : Len(x) = n - 1}, c \in S}

TextVals == {TextV(s) : s \in SeqsUpTo(Chars, MaxLen)}
IntVals == {IntV(i) : i \in {-MaxInt, 0, 7, MaxInt}}

FieldTypes == {"text", "int"}
ValuesOf(type) == IF type = "int" THEN IntVals ELSE TextVals

(***************************************************************************)
(* django.utils.encoding.force_bytes / force_text, and the per-type        *)
(* to_python / get_prep_value of the Django field classes mixed in.        *)
(***************************************************************************)
RECURSIVE Digits(_)
Digits(n) == IF n < 10 THEN <<48 + n>> ELSE Digits(n \div 10) \o <<48 + (n % 10)>>

\* str(i) as code points
IntToStr(i) == IF i < 0 THEN <<45>> \o Digits(-i) ELSE Digits(i)

RECURSIVE ParseDigits(_, _)
ParseDigits(s, acc) ==
  IF s = <<>> THEN acc ELSE ParseDigits(Tail(s), 10 * acc + (Head(s) - 48))

IsDecimal(s) ==
  LET body == IF s # <<>> /\ Head(s) = 45 THEN Tail(s) ELSE s
  IN body # <<>> /\ \A k \in 1..Len(body) : body[k] \in 48..57

\* int(s) for a decimal string s
StrToInt(s) ==
  IF s # <<>> /\ Head(s) = 45 THEN -ParseDigits(Tail(s), 0) ELSE ParseDigits(s, 0)

RECURSIVE Utf8Encode(_)
Utf8Encode(s) ==
  IF s = <<>> THEN <<>>
  ELSE LET c == Head(s)
       IN (IF c < 128 THEN <<c>> ELSE <<192 + (c \div 64), 128 + (c % 64)>>)
          \o Utf8Encode(Tail(s))

RECURSIVE Utf8Decode(_)
Utf8Decode(b) ==
  IF b = <<>> THEN <<>>
  ELSE IF Head(b) < 128 \/ Len(b) < 2 THEN <<Head(b)>> \o Utf8Decode(Tail(b))
  ELSE <<(Head(b) - 192) * 64 + (b[2] - 128)>> \o Utf8Decode(Tail(Tail(b)))

\* The text str(value)
StrOf(value) ==
  CASE value.t = "text" -> value.s
    [] value.t = "int" -> IntToStr(value.i)
    [] OTHER -> <<78, 111, 110, 101>>   \* "None"

force_bytes(value) == IF value.t = "bytes" THEN value.b ELSE Utf8Encode(StrOf(value))

force_text(bytes) == TextV(Utf8Decode(bytes))

to_python(type, value) ==
  CASE value = NULL -> NULL
    [] type = "int" /\ value.t = "text" /\ IsDecimal(value.s) -> IntV(StrToInt(value.s))
    [] type = "text" /\ value.t = "int" -> TextV(IntToStr(value.i))
    [] OTHER -> value

get_prep_value(type, value) == to_python(type, value)

(***************************************************************************)
(* cryptography.fernet, symbolically.                                      *)
(***************************************************************************)
Secrets == {"k1", "k2", "k3"}
Nonces == 1..MaxNonce

\* A Fernet key: the secret itself, or the key hkdf derives from it.
RawKey(secret) == [secret |-> secret, derived |-> FALSE]

Token(key, nonce, data) == [t |-> "token", key |-> key, nonce |-> nonce, data |-> data]

Fernet(key) == [cls |-> "Fernet", key |-> key]
MultiFernet(fernets) == [cls |-> "MultiFernet", fernets |-> fernets]

Return(v) == [exc |-> "none", val |-> v]
Raise(e) == [exc |-> e]

\* Fernet.encrypt / MultiFernet.encrypt (the latter uses its first Fernet)
Fernet_encrypt(f, data, nonce) ==
  IF f.cls = "Fernet" THEN Token(f.key, nonce, data)
  ELSE Token(f.fernets[1].key, nonce, data)

\* Fernet.decrypt / MultiFernet.decrypt (each Fernet in turn), no ttl
Fernet_decrypt(f, token) ==
  LET fs == IF f.cls = "Fernet" THEN <<f>> ELSE f.fernets
      hits == {k \in 1..Len(fs) : token.t = "token" /\ fs[k].key = token.key}
  IN IF hits = {} THEN Raise("InvalidToken") ELSE Return(token.data)

(***************************************************************************)
(* EncryptedField: key material and cipher (cached_property slots).        *)
(***************************************************************************)
\* hkdf.derive_fernet_key: deterministic, one derived key per secret
derive_fernet_key(secret) == [secret |-> secret, derived |-> TRUE]

\* EncryptedField.keys: FERNET_KEYS, or [SECRET_KEY] when it is unset / None
keys(s) == IF s.FERNET_KEYS.set THEN s.FERNET_KEYS.val ELSE <<s.SECRET_KEY>>

\* getattr(settings, 'FERNET_USE_HKDF', True)
use_hkdf(s) == IF s.FERNET_USE_HKDF.set THEN s.FERNET_USE_HKDF.val ELSE TRUE

\* EncryptedField.fernet_keys, given self.keys
fernet_keys(s, ks) ==
  IF use_hkdf(s) THEN [k \in 1..Len(ks) |-> derive_fernet_key(ks[k])]
  ELSE [k \in 1..Len(ks) |-> RawKey(ks[k])]

fernet_first_key_only(fks) == Fernet(fks[1])

fernet_reversed(fks) ==
  IF Len(fks) = 1 THEN Fernet(fks[1])
  ELSE MultiFernet([k \in 1..Len(fks) |-> Fernet(fks[Len(fks) + 1 - k])])

\* EncryptedField.fernet, given self.fernet_keys
fernet(fks) ==
  IF Len(fks) = 1 THEN Fernet(fks[1])
  ELSE MultiFernet([k \in 1..Len(fks) |-> Fernet(fks[k])])

\* The body of EncryptedField.fernet as it runs: self.fernet_keys is read
\* twice, first for its length n, then (fks) for the keys
fernet_body(n, fks) ==
  IF n = 1 THEN Fernet(fks[1])
  ELSE MultiFernet([k \in 1..Len(fks) |-> Fernet(fks[k])])

\* The cached_property slots of a fresh field instance
EmptyCache == [keys |-> Absent, fernet_keys |-> Absent, fernet |-> Absent]

\* self.keys / self.fernet_keys / self.fernet evaluated by one thread without
\* interruption: the instance __dict__ after the access (a slot already
\* present is returned as it is, a missing one is computed and stored).
self_keys(c, s) == IF c.keys.set THEN c ELSE [c EXCEPT !.keys = Opt(keys(s))]

self_fernet_keys(c, s) ==
  IF c.fernet_keys.set THEN c
  ELSE LET c1 == self_keys(c, s)
       IN [c1 EXCEPT !.fernet_keys = Opt(fernet_keys(s, c1.keys.val))]

self_fernet(c, s) ==
  IF c.fernet.set THEN c
  ELSE LET c1 == self_fernet_keys(c, s)
       IN [c1 EXCEPT !.fernet = Opt(fernet(c1.fernet_keys.val))]

(***************************************************************************)
(* EncryptedField: storage conversions.  Each takes the instance __dict__  *)
(* c and the settings s, and yields the returned value (or the exception   *)
(* raised) together with the instance __dict__ after the call.             *)
(***************************************************************************)
Result(r, c) == [ret |-> r, self |-> c]

EncryptedField_get_db_prep_save_no_null_check(type, c, s, value, nonce) ==
  LET c1 == self_fernet(c, s)
  IN Result(Fernet_encrypt(c1.fernet.val, force_bytes(get_prep_value(type, value)), nonce), c1)

\* EncryptedField.get_db_prep_save: None falls through (returns None)
EncryptedField_get_db_prep_save(type, c, s, value, nonce) ==
  LET v == get_prep_value(type, value)
      c1 == self_fernet(c, s)
  IN IF v # NULL
     THEN Result(Fernet_encrypt(c1.fernet.val, force_bytes(v), nonce), c1)
     ELSE Result(NULL, c)

EncryptedField_from_db_value_no_to_python(type, c, s, value) ==
  LET c1 == self_fernet(c, s)
      r == Fernet_decrypt(c1.fernet.val, value)
  IN IF value # NULL
     THEN Result(IF r.exc = "none" THEN Return(force_text(r.val)) ELSE r, c1)
     ELSE Result(Return(NULL), c)

\* EncryptedField.from_db_value: InvalidToken from decrypt is not caught
EncryptedField_from_db_value(type, c, s, value) ==
  LET c1 == self_fernet(c, s)
      r == Fernet_decrypt(c1.fernet.val, value)
  IN IF value # NULL
     THEN Result(IF r.exc = "none" THEN Return(to_python(type, force_text(r.val))) ELSE r, c1)
     ELSE Result(Return(NULL), c)

(***************************************************************************)
(* Configurations.                                                         *)
(***************************************************************************)
KeyLists == SeqsUpTo(Secrets, MaxKeys) \ {<<>>}

AllSettings ==
  [FERNET_KEYS : {Absent} \cup {Opt(l) : l \in KeyLists},
   SECRET_KEY : {"k3"},
   FERNET_USE_HKDF : {Absent, Opt(TRUE), Opt(FALSE)}]

AllFernetKeys == {RawKey(k) : k \in Secrets} \cup {derive_fernet_key(k) : k \in Secrets}

Range(f) == {f[x] : x \in DOMAIN f}

(***************************************************************************)
(* One encrypted attribute "e": values are prepared for storage and        *)
(* loaded back; the stored cell may also hold a token written earlier by   *)
(* a field of the same type under some other key.                          *)
(***************************************************************************)
CryptoInit ==
  /\ DualIdle /\ DeclIdle /\ ThreadIdle
  /\ settings \in AllSettings
  /\ cache = [n \in {"e"} |-> EmptyCache]
  /\ etype \in FieldTypes
  /\ cell = NULL
  /\ origin = [kind |-> "none"]
  /\ loaded = NotLoaded
  /\ crypted = FALSE

\* Field.get_db_prep_save on save: prepare_for_storage(v)
PrepareForStorage(v, nonce) ==
  /\ cell' = EncryptedField_get_db_prep_save(etype, cache["e"], settings, v, nonce).ret
  /\ cache' = [cache EXCEPT !["e"] =
                 EncryptedField_get_db_prep_save(etype, cache["e"], settings, v, nonce).self]
  /\ origin' = [kind |-> "prepared", v |-> v]
  /\ loaded' = NotLoaded
  /\ crypted' = (crypted \/ v # NULL)
  /\ UNCHANGED <<settings, etype, dualVars, declVars, threadVars>>

\* A cell written earlier under key k (possibly no longer configured)
StoreForeign(k, v, nonce) ==
  /\ cell' = Token(k, nonce, force_bytes(get_prep_value(etype, v)))
  /\ origin' = [kind |-> "foreign", v |-> v]
  /\ loaded' = NotLoaded
  /\ UNCHANGED <<settings, cache, etype, crypted, dualVars, declVars, threadVars>>

\* from_db_value on load: load_from_storage(cell)
LoadFromStorage ==
  /\ loaded = NotLoaded
  /\ loaded' = EncryptedField_from_db_value(etype, cache["e"], settings, cell).ret
  /\ cache' = [cache EXCEPT !["e"] =
                 EncryptedField_from_db_value(etype, cache["e"], settings, cell).self]
  /\ crypted' = (crypted \/ cell # NULL)
  /\ UNCHANGED <<settings, etype, cell, origin, dualVars, declVars, threadVars>>

CryptoNext ==
  \/ \E v \in ValuesOf(etype) \cup {NULL}, n \in Nonces : PrepareForStorage(v, n)
  \/ \E k \in AllFernetKeys, v \in ValuesOf(etype), n \in Nonces : StoreForeign(k, v, n)
  \/ LoadFromStorage

\* The Fernet keys of the configured key list, in order
ConfiguredFernetKeys == fernet_keys(settings, keys(settings))

\* The elements of sequence q other than x, in order
RECURSIVE Without(_, _)
Without(q, x) ==
  IF q = <<>> THEN <<>>
  ELSE (IF Head(q) # x THEN <<Head(q)>> ELSE <<>>) \o Without(Tail(q), x)

\* C3: round trip through an encrypted field: loading what was prepared from v
\* yields v; NULL is stored as NULL and loaded as NULL, without the cipher ever
\* being built; a non-NULL value is never stored as NULL.
C3_RoundTrip ==
  /\ origin.kind = "prepared" => (cell = NULL <=> origin.v = NULL)
  /\ (origin.kind = "prepared" /\ loaded # NotLoaded) => loaded = Return(origin.v)
  /\ (cell = NULL /\ loaded # NotLoaded) => loaded = Return(NULL)
  /\ ~crypted => cache["e"] = EmptyCache

C3_Witness ==
  /\ etype = "int"
  /\ origin = [kind |-> "prepared", v |-> IntV(-MaxInt)]
  /\ cell # NULL
  /\ loaded = Return(IntV(-MaxInt))

\* C4: rotation transparency: a stored token loads to the original value if and
\* only if the key that encrypted it is at some position of the configured key
\* list; otherwise the load raises InvalidToken and returns nothing.
C4_RotationTransparency ==
  (loaded # NotLoaded /\ cell # NULL) =>
    IF cell.key \in Range(ConfiguredFernetKeys)
    THEN loaded = Return(origin.v)
    ELSE loaded = Raise("InvalidToken")

C4_Witness ==
  /\ origin.kind = "foreign"
  /\ Len(ConfiguredFernetKeys) >= 2
  /\ cell.key = ConfiguredFernetKeys[2]
  /\ cell.key # ConfiguredFernetKeys[1]
  /\ loaded = Return(origin.v)

\* C8 (as stated): the token produced by prepare_for_storage decrypts under the
\* first key alone and does not decrypt under the other keys of the list.
C8_FirstKeyOnly_Original ==
  (origin.kind = "prepared" /\ origin.v # NULL) =>
    /\ Fernet_decrypt(Fernet(ConfiguredFernetKeys[1]), cell)
         = Return(force_bytes(origin.v))
    /\ Len(ConfiguredFernetKeys) >= 2 =>
         Fernet_decrypt(MultiFernet([k \in 1..Len(ConfiguredFernetKeys) - 1 |->
                                       Fernet(ConfiguredFernetKeys[k + 1])]), cell)
           = Raise("InvalidToken")

\* C8 (amended): the token produced by prepare_for_storage decrypts under the
\* first key alone and does not decrypt under the keys of the list that differ
\* from the first key.
C8_FirstKeyOnly ==
  (origin.kind = "prepared" /\ origin.v # NULL) =>
    LET first == ConfiguredFernetKeys[1]
        others == Without(ConfiguredFernetKeys, first)
    IN /\ Fernet_decrypt(Fernet(first), cell) = Return(force_bytes(origin.v))
       /\ others # <<>> =>
            Fernet_decrypt(MultiFernet([k \in 1..Len(others) |-> Fernet(others[k])]), cell)
              = Raise("InvalidToken")

C8_Witness ==
  /\ origin.kind = "prepared"
  /\ origin.v # NULL
  /\ Len(ConfiguredFernetKeys) >= 2
  /\ ConfiguredFernetKeys[2] # ConfiguredFernetKeys[1]
  /\ cell.key = ConfiguredFernetKeys[1]

(***************************************************************************)
(* DualField and DualFieldDescriptor.                                      *)
(***************************************************************************)
NO_VALUE == [t |-> "NO_VALUE"]

\* An attribute missing from an instance __dict__
Unset == [t |-> "unset"]

sha256(bytes) == [t |-> "digest", of |-> bytes]

\* contribute_to_class: encrypted_field_name = name + '_encrypted'
encrypted_field_name(name) == IF name = "a" THEN "a_encrypted" ELSE "b_encrypted"

\* Keyword arguments of a field declaration; an option not passed is Absent
NoKwargs ==
  [primary_key |-> Absent, unique |-> Absent, db_index |-> Absent,
   null |-> Absent, editable |-> Absent, default |-> Absent]

\* bool(kwargs.get(option))
Truthy(kwargs, option) == kwargs[option].set /\ kwargs[option].val = TRUE

\* models.Field.__init__: the options as attributes, with Django's defaults
Field_init(kind, type, kwargs, counter) ==
  [kind |-> kind, type |-> type,
   primary_key |-> Truthy(kwargs, "primary_key"),
   unique |-> Truthy(kwargs, "unique"),
   db_index |-> Truthy(kwargs, "db_index"),
   null |-> Truthy(kwargs, "null"),
   editable |-> (~kwargs.editable.set \/ kwargs.editable.val = TRUE),
   default |-> kwargs.default,
   creation_counter |-> counter]

EncryptedField_init_no_db_index_check(type, kwargs, counter) ==
  IF Truthy(kwargs, "primary_key") \/ Truthy(kwargs, "unique")
  THEN Raise("ImproperlyConfigured")
  ELSE Return(Field_init("encrypted", type, kwargs, counter))

\* EncryptedField.__init__
EncryptedField_init(type, kwargs, counter) ==
  IF Truthy(kwargs, "primary_key") THEN Raise("ImproperlyConfigured")
  ELSE IF Truthy(kwargs, "unique") THEN Raise("ImproperlyConfigured")
  ELSE IF Truthy(kwargs, "db_index") THEN Raise("ImproperlyConfigured")
  ELSE Return(Field_init("encrypted", type, kwargs, counter))

creation_counter_kept(own) == own

\* DualField.__init__: self.encrypted_field.creation_counter = -1
encrypted_field_creation_counter(own) == -1

\* DualField.__init__ of the Dual<type>Field class; counter is
\* Field.creation_counter when the declaration starts.  The hidden field is
\* built by encrypted_field_class(editable=False, null=self.null).
DualField_init(type, kwargs, counter) ==
  IF Truthy(kwargs, "primary_key") THEN Raise("ImproperlyConfigured")
  ELSE LET self == Field_init("dual", type, kwargs, counter)
           enc == EncryptedField_init(
                    type,
                    [NoKwargs EXCEPT !.editable = Opt(FALSE), !.null = Opt(self.null)],
                    counter + 1)
       IN IF enc.exc # "none" THEN enc
          ELSE Return([kind |-> self.kind, type |-> self.type,
                       primary_key |-> self.primary_key, unique |-> self.unique,
                       db_index |-> self.db_index, null |-> self.null,
                       editable |-> self.editable, default |-> self.default,
                       creation_counter |-> self.creation_counter,
                       encrypted_field |->
                         [enc.val EXCEPT !.creation_counter =
                            encrypted_field_creation_counter(counter + 1)]])

\* Options.add_field: bisect.insort on creation_counter
RECURSIVE Insort(_, _)
Insort(fields, f) ==
  IF fields # <<>> /\ fields[Len(fields)].creation_counter > f.creation_counter
  THEN Append(Insort(SubSeq(fields, 1, Len(fields) - 1), f), fields[Len(fields)])
  ELSE Append(fields, f)

\* Field.contribute_to_class sets the attname
Named(f, name) ==
  [kind |-> f.kind, type |-> f.type, null |-> f.null, default |-> f.default,
   creation_counter |-> f.creation_counter, attname |-> name,
   encrypted_attname |->
     IF f.kind = "dual" THEN encrypted_field_name(name) ELSE name]

\* DualField.contribute_to_class: the field itself, then its hidden
\* encrypted field; the public name becomes a DualFieldDescriptor.
DualField_contribute_to_class(fields, f, name) ==
  Insort(Insort(fields, Named(f, name)),
         Named(f.encrypted_field, encrypted_field_name(name)))

DualFieldDescriptor_get(o, encrypted_field_attname) == o[encrypted_field_attname]

DualFieldDescriptor_set_unconditional(o, encrypted_field_attname, value) ==
  [o EXCEPT ![encrypted_field_attname] = value]

\* DualFieldDescriptor.__set__: NO_VALUE is not written
DualFieldDescriptor_set(o, encrypted_field_attname, value) ==
  IF value # NO_VALUE THEN [o EXCEPT ![encrypted_field_attname] = value] ELSE o

\* setattr(obj, field.attname, value): the public name of a dual field is a
\* data descriptor on the class, any other attname a plain instance attribute
setattr(o, f, value) ==
  IF f.kind = "dual" THEN DualFieldDescriptor_set(o, f.encrypted_attname, value)
  ELSE [o EXCEPT ![f.attname] = value]

\* getattr(obj, field.attname)
getattr(o, f) ==
  IF f.kind = "dual" THEN DualFieldDescriptor_get(o, f.encrypted_attname)
  ELSE o[f.attname]

DualField_hash_value(val) == sha256(force_bytes(val))

DualField_get_db_prep_value_no_null_check(type, value) ==
  DualField_hash_value(get_prep_value(type, value))

\* DualField.get_db_prep_value: None falls through (returns None)
DualField_get_db_prep_value(type, value) ==
  LET v == get_prep_value(type, value)
  IN IF v # NULL THEN DualField_hash_value(v) ELSE NULL

\* DualField.pre_save: the value of the hidden encrypted field
DualField_pre_save(o, f) == o[f.encrypted_attname]

DualField_from_db_value_identity(value) == value

\* DualField.from_db_value
DualField_from_db_value(value) == NO_VALUE

\* Field.get_default of a field without callable default
get_default(f) ==
  IF f.default.set THEN f.default.val
  ELSE IF f.type = "int" \/ f.null THEN NULL
  ELSE TextV(<<>>)

(***************************************************************************)
(* A model class with two dual attributes, "a" (DualTextField) and "b"     *)
(* (DualIntegerField), one in-memory instance of it and its database row.  *)
(***************************************************************************)
DualNames == <<"a", "b">>
HiddenNames == {encrypted_field_name(DualNames[k]) : k \in 1..Len(DualNames)}
Columns == HiddenNames \cup Range(DualNames)

\* The class body: each declaration takes two creation counters
ModelFields(a_kwargs, b_kwargs) ==
  DualField_contribute_to_class(
    DualField_contribute_to_class(<<>>, DualField_init("text", a_kwargs, 0).val, "a"),
    DualField_init("int", b_kwargs, 2).val, "b")

FieldOf(fields, attname) ==
  fields[CHOOSE k \in 1..Len(fields) : fields[k].attname = attname]

Settings(ks, hkdf) == [FERNET_KEYS |-> ks, SECRET_KEY |-> "k3", FERNET_USE_HKDF |-> hkdf]

\* Key configurations a deployment moves through when rotating keys
DualSettings ==
  {Settings(Opt(<<"k1">>), Absent),
   Settings(Opt(<<"k2", "k1">>), Opt(TRUE)),
   Settings(Opt(<<"k2">>), Opt(TRUE))}

FreshObj == [h \in HiddenNames |-> Unset]
Constructed(o) == \A h \in HiddenNames : o[h] # Unset

DualInit ==
  /\ CryptoIdle /\ DeclIdle /\ ThreadIdle
  /\ settings \in DualSettings
  /\ cache = [h \in HiddenNames |-> EmptyCache]
  /\ \E a_null \in {Absent, Opt(TRUE)}, b_default \in {Absent, Opt(IntV(7))} :
       meta = ModelFields([NoKwargs EXCEPT !.null = a_null],
                          [NoKwargs EXCEPT !.null = Opt(TRUE), !.default = b_default])
  /\ obj = FreshObj
  /\ row = Absent
  /\ ctor = CtorIdle
  /\ last = [op |-> "none"]
  /\ lastWrite = FreshObj

\* Model(**kwargs): Model.__init__ starts on a new instance
BeginInit(kwargs) ==
  /\ ctor = CtorIdle
  /\ ctor' = [via |-> "init", next |-> 1, trace |-> <<>>,
              args |-> [c \in Columns |-> IF c \in DOMAIN kwargs THEN kwargs[c] ELSE Absent]]
  /\ obj' = FreshObj
  /\ lastWrite' = FreshObj
  /\ last' = [op |-> "constructing"]
  /\ UNCHANGED <<settings, cache, meta, row, cryptoVars, declVars, threadVars>>

\* Model.__init__ populates the next field of _meta.concrete_fields with
\* its argument or, when none was given, the field's default
PopulateField ==
  /\ ctor # CtorIdle
  /\ LET f == meta[ctor.next]
         val == IF ctor.args[f.attname].set THEN ctor.args[f.attname].val ELSE get_default(f)
         target == IF f.kind = "dual" THEN f.encrypted_attname ELSE f.attname
         trace == Append(ctor.trace, f.attname)
     IN /\ obj' = setattr(obj, f, val)
        /\ lastWrite' = IF val # NO_VALUE THEN [lastWrite EXCEPT ![target] = val]
                        ELSE lastWrite
        /\ IF ctor.next < Len(meta)
           THEN /\ ctor' = [ctor EXCEPT !.next = ctor.next + 1, !.trace = trace]
                /\ last' = last
           ELSE /\ ctor' = CtorIdle
                /\ last' = [op |-> IF ctor.via = "init" THEN "init" ELSE "load",
                            args |-> ctor.args, trace |-> trace, row |-> row]
  /\ UNCHANGED <<settings, cache, meta, row, cryptoVars, declVars, threadVars>>

\* obj.<name> = v
Assign(name, v) ==
  /\ ctor = CtorIdle
  /\ Constructed(obj)
  /\ obj' = setattr(obj, FieldOf(meta, name), v)
  /\ lastWrite' = [lastWrite EXCEPT ![encrypted_field_name(name)] = v]
  /\ last' = [op |-> "assign", name |-> name, v |-> v]
  /\ UNCHANGED <<settings, cache, meta, row, ctor, cryptoVars, declVars, threadVars>>

\* What save() computes for field f: pre_save, then get_db_prep_save
SaveField(f, nonce) ==
  IF f.kind = "dual"
  THEN Result(DualField_get_db_prep_value(f.type, DualField_pre_save(obj, f)), EmptyCache)
  ELSE EncryptedField_get_db_prep_save(f.type, cache[f.attname], settings,
                                       getattr(obj, f), nonce[f.attname])

\* obj.save(): every column is computed and the row is written; the database
\* refuses NULL in a column declared NOT NULL
Save(nonce) ==
  /\ ctor = CtorIdle
  /\ Constructed(obj)
  /\ LET res == [c \in Columns |-> SaveField(FieldOf(meta, c), nonce)]
         refused == \E c \in Columns : res[c].ret = NULL /\ ~FieldOf(meta, c).null
     IN /\ cache' = [h \in HiddenNames |-> res[h].self]
        /\ IF refused
           THEN /\ row' = row
                /\ last' = [op |-> "save_failed", exc |-> "IntegrityError"]
           ELSE /\ row' = Opt([c \in Columns |-> res[c].ret])
                /\ last' = [op |-> "save", held |-> obj]
  /\ UNCHANGED <<settings, meta, obj, ctor, lastWrite, cryptoVars, declVars, threadVars>>

\* What the query compiler's converters yield for column f of the row
LoadField(f) ==
  IF f.kind = "dual"
  THEN Result(Return(DualField_from_db_value(row.val[f.attname])), EmptyCache)
  ELSE EncryptedField_from_db_value(f.type, cache[f.attname], settings, row.val[f.attname])

\* Model.objects.get(): the row's columns are converted by from_db_value and
\* Model.from_db starts Model.__init__ on a new instance with the results
BeginLoad ==
  /\ ctor = CtorIdle
  /\ row.set
  /\ LET res == [c \in Columns |-> LoadField(FieldOf(meta, c))]
         raised == {c \in Columns : res[c].ret.exc # "none"}
     IN /\ cache' = [h \in HiddenNames |-> res[h].self]
        /\ IF raised # {}
           THEN /\ last' = [op |-> "load_failed", exc |-> "InvalidToken"]
                /\ UNCHANGED <<obj, ctor, lastWrite>>
           ELSE /\ ctor' = [via |-> "from_db", next |-> 1, trace |-> <<>>,
                            args |-> [c \in Columns |-> Opt(res[c].ret.val)]]
                /\ obj' = FreshObj
                /\ lastWrite' = FreshObj
                /\ last' = [op |-> "constructing"]
  /\ UNCHANGED <<settings, meta, row, cryptoVars, declVars, threadVars>>

\* The process is restarted under another key configuration: field
\* instances and model instances are gone, the database row stays
Restart(s) ==
  /\ ctor = CtorIdle
  /\ s # settings
  /\ settings' = s
  /\ cache' = [h \in HiddenNames |-> EmptyCache]
  /\ obj' = FreshObj
  /\ lastWrite' = FreshObj
  /\ last' = [op |-> "restart"]
  /\ UNCHANGED <<meta, row, ctor, cryptoVars, declVars, threadVars>>

\* Representative values assigned to the two attributes
DualValues(name) ==
  IF name = "a" THEN {NULL, TextV(<<>>), TextV(<<233, 55>>)}
  ELSE {NULL, IntV(-MaxInt), IntV(7)}

Kwargs ==
  {kw \in [Range(DualNames) -> DualValues("a") \cup DualValues("b") \cup {Unset}] :
     \A n \in Range(DualNames) : kw[n] \in DualValues(n) \cup {Unset}}

DualNext ==
  \/ \E kw \in Kwargs :
       BeginInit([n \in {m \in Range(DualNames) : kw[m] # Unset} |-> Opt(kw[n])])
  \/ PopulateField
  \/ \E name \in Range(DualNames) : \E v \in DualValues(name) : Assign(name, v)
  \/ \E nonce \in [HiddenNames -> Nonces] : Save(nonce)
  \/ BeginLoad
  \/ \E s \in DualSettings : Restart(s)

\* The dual field declared as attribute `name`
DualFieldOf(name) == FieldOf(meta, name)

\* Reading the logical attribute `name` of the instance
ReadAttr(name) == getattr(obj, DualFieldOf(name))

\* What a stored encrypted cell holds: the value its payload decodes to
Plaintext(type, c) == IF c = NULL THEN NULL ELSE to_python(type, force_text(c.data))

\* C1: immediately after each successful save, with v the value the hidden
\* encrypted member held at that save: if v is NULL both cells are NULL,
\* otherwise the encrypted cell is a token that loads back to v and the hash
\* cell is SHA256 of v's canonical bytes.
C1_DualConsistency ==
  last.op = "save" =>
    \A name \in Range(DualNames) :
      LET hid == encrypted_field_name(name)
          v == last.held[hid]
          enc == row.val[hid]
      IN IF v = NULL
         THEN enc = NULL /\ row.val[name] = NULL
         ELSE /\ enc.t = "token"
              /\ EncryptedField_from_db_value(DualFieldOf(name).type, cache[hid],
                                              settings, enc).ret = Return(v)
              /\ row.val[name] = sha256(force_bytes(v))

C1_Witness ==
  /\ last.op = "save"
  /\ last.held["a_encrypted"] = TextV(<<233, 55>>)
  /\ last.held["b_encrypted"] = NULL
  /\ row.val["a"] = sha256(<<195, 169, 55>>)
  /\ row.val["b"] = NULL

\* C2: the hash half's load yields NO_VALUE whatever digest is stored, and
\* after a load the logical attribute reads exactly the value held by the
\* encrypted cell (NULL when that cell is NULL), never the digest or sentinel.
C2_NoPlaintextFromHash ==
  last.op = "load" =>
    \A name \in Range(DualNames) :
      /\ last.args[name] = Opt(NO_VALUE)
      /\ ReadAttr(name) =
           Plaintext(DualFieldOf(name).type, last.row.val[encrypted_field_name(name)])
      /\ ReadAttr(name) # NO_VALUE
      /\ ReadAttr(name).t # "digest"

C2_Witness ==
  /\ last.op = "load"
  /\ last.row.val["b"] = sha256(<<45, 49, 50>>)
  /\ ReadAttr("b") = IntV(-12)
  /\ ReadAttr("a") = NULL

\* C7: in every state the logical attribute reads the hidden encrypted
\* member's value, which is the most recent non-sentinel value written (NULL
\* included); a sentinel write changes nothing; a save leaves the in-memory
\* values as they were.
C7_WriteThrough ==
  /\ \A name \in Range(DualNames) :
       /\ ReadAttr(name) = obj[encrypted_field_name(name)]
       /\ ReadAttr(name) = lastWrite[encrypted_field_name(name)]
  /\ last.op = "save" => obj = last.held

C7_Witness ==
  /\ last.op = "load"
  /\ last.args["a"] = Opt(NO_VALUE)
  /\ lastWrite["a_encrypted"] = TextV(<<233, 55>>)
  /\ ReadAttr("a") = TextV(<<233, 55>>)

\* The attnames populated so far by the running or just completed __init__
Populated ==
  IF ctor # CtorIdle THEN ctor.trace
  ELSE IF last.op \in {"init", "load"} THEN last.trace
  ELSE <<>>

\* C9: during construction the hidden encrypted member is populated strictly
\* before its dual attribute, for every dual attribute; after construction the
\* logical attribute reads the value given, or the dual attribute's default
\* (a well-defined, possibly NULL value) when none was given.
C9_ConstructionOrder ==
  /\ \A name \in Range(DualNames) : \A i \in 1..Len(Populated) :
       Populated[i] = name =>
         \E j \in 1..(i - 1) : Populated[j] = encrypted_field_name(name)
  /\ last.op = "init" =>
       \A name \in Range(DualNames) :
         /\ ReadAttr(name) # Unset
         /\ ReadAttr(name) = IF last.args[name].set THEN last.args[name].val
                             ELSE get_default(DualFieldOf(name))

C9_Witness ==
  /\ last.op = "init"
  /\ last.args["a"] = Opt(TextV(<<233, 55>>))
  /\ ~last.args["b"].set
  /\ last.trace = <<"a_encrypted", "b_encrypted", "a", "b">>
  /\ ReadAttr("a") = TextV(<<233, 55>>)
  /\ ReadAttr("b") = IntV(7)

(***************************************************************************)
(* Lookups.                                                                *)
(***************************************************************************)
BoolV(b) == [t |-> "bool", b |-> b]
ListV(items) == [t |-> "list", items |-> items]

\* The lookup types of the query layer
LookupTypes ==
  {"exact", "iexact", "contains", "icontains", "gt", "gte", "lt", "lte", "in",
   "startswith", "istartswith", "endswith", "iendswith", "range", "year",
   "month", "day", "week_day", "isnull", "search", "regex", "iregex"}

\* EncryptedField.get_prep_lookup
EncryptedField_get_prep_lookup(lookup_type, value) == Raise("FieldError")

\* models.Field.get_prep_lookup for the three lookup types DualField lets through
Field_get_prep_lookup(type, lookup_type, value) ==
  CASE lookup_type = "exact" -> Return(get_prep_value(type, value))
    [] lookup_type = "in" ->
         Return(ListV([k \in 1..Len(value.items) |-> get_prep_value(type, value.items[k])]))
    [] OTHER -> Return(value)

DualField_get_prep_lookup_allows_ordering(type, lookup_type, value) ==
  IF lookup_type \notin {"exact", "in", "isnull", "gt", "gte", "lt", "lte"}
  THEN Raise("FieldError")
  ELSE Field_get_prep_lookup(type, lookup_type, value)

\* DualField.get_prep_lookup
DualField_get_prep_lookup(type, lookup_type, value) ==
  IF lookup_type \notin {"exact", "in", "isnull"} THEN Raise("FieldError")
  ELSE Field_get_prep_lookup(type, lookup_type, value)

(***************************************************************************)
(* Field declarations and lookups against the declared field.              *)
(***************************************************************************)
DeclInit ==
  /\ CryptoIdle /\ DualIdle /\ ThreadIdle
  /\ settings = Settings(Absent, Absent)
  /\ cache = <<>>
  /\ decl = NoDecl
  /\ lookup = NoLookup

\* A class body declares Encrypted<type>Field(**kwargs) or Dual<type>Field(**kwargs)
Declare(kind, type, kwargs) ==
  /\ decl' = [kind |-> kind, type |-> type, kwargs |-> kwargs,
              out |-> IF kind = "dual" THEN DualField_init(type, kwargs, 0)
                      ELSE EncryptedField_init(type, kwargs, 0)]
  /\ lookup' = NoLookup
  /\ UNCHANGED <<settings, cache, cryptoVars, dualVars, threadVars>>

\* A queryset filters on the declared attribute: <name>__<lookup_type>=value
Lookup(lookup_type, value) ==
  /\ decl # NoDecl
  /\ decl.out.exc = "none"
  /\ lookup' = [lookup_type |-> lookup_type, value |-> value,
                out |-> IF decl.kind = "dual"
                        THEN DualField_get_prep_lookup(decl.type, lookup_type, value)
                        ELSE EncryptedField_get_prep_lookup(lookup_type, value)]
  /\ UNCHANGED <<settings, cache, decl, cryptoVars, dualVars, threadVars>>

DeclKwargs ==
  {kw \in [primary_key : {Absent, Opt(TRUE), Opt(FALSE)},
           unique : {Absent, Opt(TRUE), Opt(FALSE)},
           db_index : {Absent, Opt(TRUE), Opt(FALSE)},
           null : {Absent, Opt(TRUE)},
           editable : {Absent},
           default : {Absent}] : TRUE}

\* Right-hand sides of a lookup on a field of the given type
LookupValues(type, lookup_type) ==
  CASE lookup_type = "isnull" -> {BoolV(TRUE), BoolV(FALSE)}
    [] lookup_type \in {"in", "range"} ->
         {ListV(<<v>>) : v \in {IntV(7), TextV(<<55>>)}}
           \cup {ListV(<<IntV(0), IntV(7)>>)}
    [] OTHER -> {IntV(7), TextV(<<55>>), TextV(<<233>>)}

DeclNext ==
  \/ \E kind \in {"encrypted", "dual"}, type \in FieldTypes, kw \in DeclKwargs :
       Declare(kind, type, kw)
  \/ \E lt \in LookupTypes : \E v \in LookupValues(decl.type, lt) : Lookup(lt, v)

\* A lookup has been attempted and was rejected
LookupRejected == lookup # NoLookup /\ lookup.out.exc # "none"

\* Admission of the last lookup attempted
LookupAdmission ==
  lookup # NoLookup =>
    IF decl.kind = "dual"
    THEN IF lookup.lookup_type \in {"exact", "in", "isnull"}
         THEN lookup.out.exc = "none"
         ELSE lookup.out = Raise("FieldError")
    ELSE lookup.out = Raise("FieldError")

\* C5: a lookup on a dual attribute is accepted if and only if its operator
\* is exact, in or isnull, every other operator fails with FieldError; every
\* lookup on a pure encrypted attribute fails with FieldError; a rejected
\* lookup leaves the declared field and all other state as it was.
C5_LookupAdmission ==
  /\ []LookupAdmission
  /\ [][(lookup' # lookup /\ LookupRejected') =>
          (decl' = decl /\ settings' = settings /\ cache' = cache)]_<<settings, cache, decl, lookup>>

C5_Witness ==
  /\ decl.kind = "dual"
  /\ lookup.lookup_type = "range"
  /\ lookup.out = Raise("FieldError")

NumThreads == 2
MaxOps == 2
MaxChanges == 1

Threads == 1..NumThreads

CacheSettings ==
  {Settings(Opt(<<"k1">>), Absent),
   Settings(Opt(<<"k2", "k1">>), Absent),
   Settings(Opt(<<"k2", "k1">>), Opt(FALSE))}

NoLocals == [hk |-> FALSE, ks |-> <<>>, n |-> 0, f |-> Fernet(RawKey("k3"))]

ThreadInit ==
  /\ CryptoIdle /\ DualIdle /\ DeclIdle
  /\ settings \in CacheSettings
  /\ cache = [n \in {"e"} |-> EmptyCache]
  /\ th = [t \in Threads |-> [pc |-> "idle", ops |-> 0, loc |-> NoLocals]]
  /\ stores = [slot \in {"keys", "fernet_keys", "fernet"} |-> 0]
  /\ observed = Absent
  /\ lastUsed = Absent
  /\ changes = 0

Goto(t, pc) == th' = [th EXCEPT ![t].pc = pc]

\* get_db_prep_save / from_db_value reach `self.fernet`
BeginOp(t) ==
  /\ th[t].pc = "idle"
  /\ th[t].ops < MaxOps
  /\ th' = [th EXCEPT ![t].pc = "fernet", ![t].ops = @ + 1, ![t].loc = NoLocals]
  /\ UNCHANGED <<settings, cache, stores, observed, lastUsed, changes, cryptoVars, dualVars, declVars>>

\* self.fernet: found in __dict__, or the property body is entered
LookupFernet(t) ==
  /\ th[t].pc = "fernet"
  /\ IF cache["e"].fernet.set
     THEN th' = [th EXCEPT ![t].pc = "use", ![t].loc.f = cache["e"].fernet.val]
     ELSE Goto(t, "fernet_len")
  /\ UNCHANGED <<settings, cache, stores, observed, lastUsed, changes, cryptoVars, dualVars, declVars>>

\* fernet body, len(self.fernet_keys): found, or the property body is entered
LookupFernetKeys(t) ==
  /\ th[t].pc = "fernet_len"
  /\ IF cache["e"].fernet_keys.set
     THEN th' = [th EXCEPT ![t].pc = "fernet_build",
                           ![t].loc.n = Len(cache["e"].fernet_keys.val)]
     ELSE Goto(t, "fernet_keys_hkdf")
  /\ UNCHANGED <<settings, cache, stores, observed, lastUsed, changes, cryptoVars, dualVars, declVars>>

\* fernet_keys body: getattr(settings, 'FERNET_USE_HKDF', True)
ReadUseHkdf(t) ==
  /\ th[t].pc = "fernet_keys_hkdf"
  /\ th' = [th EXCEPT ![t].pc = "keys", ![t].loc.hk = use_hkdf(settings)]
  /\ UNCHANGED <<settings, cache, stores, observed, lastUsed, changes, cryptoVars, dualVars, declVars>>

\* fernet_keys body, self.keys: found, or the property body is entered
LookupKeys(t) ==
  /\ th[t].pc = "keys"
  /\ IF cache["e"].keys.set
     THEN th' = [th EXCEPT ![t].pc = "fernet_keys_store", ![t].loc.ks = cache["e"].keys.val]
     ELSE Goto(t, "keys_body")
  /\ UNCHANGED <<settings, cache, stores, observed, lastUsed, changes, cryptoVars, dualVars, declVars>>

\* keys body: reads settings
ComputeKeys(t) ==
  /\ th[t].pc = "keys_body"
  /\ th' = [th EXCEPT ![t].pc = "keys_store", ![t].loc.ks = keys(settings)]
  /\ UNCHANGED <<settings, cache, stores, observed, lastUsed, changes, cryptoVars, dualVars, declVars>>

\* cached_property stores keys in __dict__
StoreKeys(t) ==
  /\ th[t].pc = "keys_store"
  /\ cache' = [cache EXCEPT !["e"].keys = Opt(th[t].loc.ks)]
  /\ stores' = [stores EXCEPT !["keys"] = @ + 1]
  /\ Goto(t, "fernet_keys_store")
  /\ UNCHANGED <<settings, observed, lastUsed, changes, cryptoVars, dualVars, declVars>>

\* fernet_keys body returns; cached_property stores fernet_keys in __dict__
StoreFernetKeys(t) ==
  /\ th[t].pc = "fernet_keys_store"
  /\ LET fks == IF th[t].loc.hk
                THEN [k \in 1..Len(th[t].loc.ks) |-> derive_fernet_key(th[t].loc.ks[k])]
                ELSE [k \in 1..Len(th[t].loc.ks) |-> RawKey(th[t].loc.ks[k])]
     IN /\ cache' = [cache EXCEPT !["e"].fernet_keys = Opt(fks)]
        /\ th' = [th EXCEPT ![t].pc = "fernet_build", ![t].loc.n = Len(fks)]
  /\ stores' = [stores EXCEPT !["fernet_keys"] = @ + 1]
  /\ UNCHANGED <<settings, observed, lastUsed, changes, cryptoVars, dualVars, declVars>>

\* fernet body: the cipher is built from self.fernet_keys, read again
BuildFernet(t) ==
  /\ th[t].pc = "fernet_build"
  /\ th' = [th EXCEPT ![t].pc = "fernet_store",
                      ![t].loc.f = fernet_body(th[t].loc.n, cache["e"].fernet_keys.val)]
  /\ UNCHANGED <<settings, cache, stores, observed, lastUsed, changes, cryptoVars, dualVars, declVars>>

\* cached_property stores fernet in __dict__
StoreFernet(t) ==
  /\ th[t].pc = "fernet_store"
  /\ cache' = [cache EXCEPT !["e"].fernet = Opt(th[t].loc.f)]
  /\ stores' = [stores EXCEPT !["fernet"] = @ + 1]
  /\ Goto(t, "use")
  /\ UNCHANGED <<settings, observed, lastUsed, changes, cryptoVars, dualVars, declVars>>

\* .encrypt(...) / .decrypt(...) on the cipher the thread obtained
UseCipher(t) ==
  /\ th[t].pc = "use"
  /\ observed' = IF observed.set THEN observed ELSE Opt(th[t].loc.f)
  /\ lastUsed' = Opt(th[t].loc.f)
  /\ Goto(t, "idle")
  /\ UNCHANGED <<settings, cache, stores, changes, cryptoVars, dualVars, declVars>>

\* The process-wide key configuration is replaced
ChangeSettings(s) ==
  /\ changes < MaxChanges
  /\ s # settings
  /\ settings' = s
  /\ changes' = changes + 1
  /\ UNCHANGED <<cache, th, stores, observed, lastUsed, cryptoVars, dualVars, declVars>>

ThreadNext ==
  \/ \E t \in Threads :
       \/ BeginOp(t)
       \/ LookupFernet(t)
       \/ LookupFernetKeys(t)
       \/ ReadUseHkdf(t)
       \/ LookupKeys(t)
       \/ ComputeKeys(t)
       \/ StoreKeys(t)
       \/ StoreFernetKeys(t)
       \/ BuildFernet(t)
       \/ StoreFernet(t)
       \/ UseCipher(t)
  \/ \E s \in CacheSettings : ChangeSettings(s)

\* Every use of a cipher so far used the cipher first observed
SameCipherAlways == lastUsed.set => lastUsed = observed

\* C10: under every interleaving the key list, the derived keys and the cipher
\* are each stored at most once per field instance, and once a cipher has been
\* observed every later encrypt or decrypt uses that same cipher, also when the
\* configuration is changed afterwards.
C10_WriteOnce ==
  /\ \A slot \in DOMAIN stores : stores[slot] <= 1
  /\ SameCipherAlways

\* One encrypted attribute: prepare_for_storage / load_from_storage
SpecCrypto == CryptoInit /\ [][CryptoNext]_vars

\* A record with two dual attributes: construction, assignment, save, load
Spec == DualInit /\ [][DualNext]_vars

\* Field declarations and lookups
SpecDecl == DeclInit /\ [][DeclNext]_vars

\* Threads racing on the cached_property slots of one field instance
SpecCache == ThreadInit /\ [][ThreadNext]_vars

====
